---- MODULE Spec2Model ----
(***************************************************************************)
(* Model of data_tools/kinetics700/download.py: the VideoDownloader worker *)
(* pool (fetch with youtube-dl, trim with ffmpeg, shared temporary         *)
(* directory) and the task source (collect_videos, prepare_tasks).         *)
(*                                                                         *)
(* Strings and paths are sequences of one-character strings, so that       *)
(* split, glob, join, endswith and replace are computed on the characters. *)
(***************************************************************************)
EXTENDS Integers, Sequences, FiniteSets, TLC

\* ---------------------------------------------------------------- bounds
MaxTasks == 3
MaxJobs == 2
MaxAttempts == 2
MaxSources == 2
MaxRecords == 2
MaxHalves == 2

\* ---------------------------------------------------------------- strings
IsPrefix(p, s) == Len(p) <= Len(s) /\ SubSeq(s, 1, Len(p)) = p

EndsWith(s, suf) == Len(suf) <= Len(s) /\ SubSeq(s, Len(s) - Len(suf) + 1, Len(s)) = suf

\* positions at which sub occurs in s
Occurrences(s, sub) == {i \in 1..(Len(s) - Len(sub) + 1) : SubSeq(s, i, i + Len(sub) - 1) = sub}

\* s.split(sep)[0]
SplitFirst(s, sep) ==
    IF Occurrences(s, sep) = {} THEN s
    ELSE LET i == CHOOSE k \in Occurrences(s, sep) : \A m \in Occurrences(s, sep) : k <= m
         IN SubSeq(s, 1, i - 1)

\* s.split(sep)[-1]
SplitLast(s, sep) ==
    IF Occurrences(s, sep) = {} THEN s
    ELSE LET i == CHOOSE k \in Occurrences(s, sep) : \A m \in Occurrences(s, sep) : k >= m
         IN SubSeq(s, i + Len(sep), Len(s))

\* s.replace(old, ''), leftmost non-overlapping occurrences
RECURSIVE Remove(_, _)
Remove(s, old) ==
    IF Len(s) = 0 THEN <<>>
    ELSE IF IsPrefix(old, s) THEN Remove(SubSeq(s, Len(old) + 1, Len(s)), old)
    ELSE <<Head(s)>> \o Remove(Tail(s), old)

Slashes(p) == {i \in 1..Len(p) : p[i] = "/"}
LastSlash(p) == IF Slashes(p) = {} THEN 0 ELSE CHOOSE k \in Slashes(p) : \A m \in Slashes(p) : k >= m

\* os.path.basename
basename(p) == SubSeq(p, LastSlash(p) + 1, Len(p))

\* the directory part of a path, separator included
DirPart(p) == SubSeq(p, 1, LastSlash(p))

\* os.path.join with two components
join(a, b) ==
    IF Len(b) > 0 /\ b[1] = "/" THEN b
    ELSE IF Len(a) = 0 \/ a[Len(a)] = "/" THEN a \o b
    ELSE a \o <<"/">> \o b

\* ---------------------------------------------------------------- inputs
\* candidate temporary directories: "/t" and "/a.b"
TmpDirs == { <<"/", "t">>, <<"/", "a", ".", "b">> }

\* a file next to the dotted temporary directory: "/ax"
Sibling == <<"/", "a", "x">>

\* uuid.uuid4() of the i-th invocation: distinct identifiers of equal length
Uuid(i) == <<"u", ToString(i)>>

Url(i) == <<"h", "?", "v", "=", ToString(i)>>
OutPath(i) == <<"/", "o", "/", ToString(i), ".", "m">>
\* args.output_dir "/o" and args.extension "m"
VideosDir == <<"/", "o">>
Extension == <<"m">>

\* urls of annotation records: two videos, a second url of video 1, and a
\* url whose identifier "1.m" contains the extension
SrcUrls == {Url(1), Url(2), <<"g", "?", "v", "=", "1">>, <<"h", "?", "v", "=", "1", ".", "m">>}

\* a JSON number of a segment, in half seconds (3 is 1.5)
SegNumbers == 0..MaxHalves

\* annotation records: record['url'], record['annotations']['segment']
Records == [url : SrcUrls, segment : SegNumbers \X SegNumbers]

\* the value of record before the first pass of the loop
NoRecord == [url |-> <<>>, segment |-> <<0, 0>>]

AllTasks == [i \in 1..MaxTasks |-> <<Url(i), OutPath(i), 0, 10>>]

\* ---------------------------------------------------------------- state
VARIABLES
    num_jobs,          \* self.num_jobs
    max_num_attempts,  \* self.max_num_attempts
    tmp_dir,           \* self.tmp_dir
    tasks,             \* argument of __call__
    dirs,              \* directories on the filesystem
    files,             \* regular files on the filesystem
    mainPc,            \* position of __call__
    wpc,               \* position of each _download_video invocation
    tmp_filename,      \* local tmp_filename of each invocation
    attempts,          \* local attempts of each invocation
    status,            \* local status of each invocation
    ret,               \* return value of each invocation (<<>> while none)
    status_lst,        \* status_lst of __call__
    log,               \* lines printed by _log
    fetchCalls,        \* youtube-dl invocations per task
    transcodeCalls,    \* ffmpeg invocations per task
    srcPc,             \* position of main in collect_videos / prepare_tasks
    src_index,         \* data sources opened by collect_videos
    num_records,       \* records read by collect_videos
    record,            \* loop variable record of collect_videos
    out_videos,        \* out_videos of collect_videos
    num_duplicated_videos,  \* num_duplicated_videos of collect_videos
    out_tasks,         \* out_tasks of prepare_tasks
    other,             \* position of another __call__ on the same tmp_dir
    runs,              \* runs of main so far
    plan,              \* what the tools do for each task, when fixed in advance
    seq_out            \* outcome of the sequential run under plan

dlVars == <<num_jobs, max_num_attempts, tmp_dir, tasks, dirs, files, mainPc, wpc,
            tmp_filename, attempts, status, ret, status_lst, log, fetchCalls, transcodeCalls>>

srcVars == <<srcPc, src_index, num_records, record, out_videos, num_duplicated_videos, out_tasks>>

envVars == <<other, runs, plan, seq_out>>

Tasks == 1..Len(tasks)
Running == {t \in Tasks : wpc[t] \in {"fetch", "glob", "transcode", "finish"}}

\* ---------------------------------------------------------------- filesystem
\* os.path.exists
exists(p) == p \in dirs \/ p \in files

\* glob.glob(prefix + '*'): entries of the prefix's directory whose name starts
\* with the prefix's last component ('*' does not cross '/', and does not match
\* a leading '.' of a name)
glob(prefix) ==
    {p \in dirs \cup files :
        /\ Len(p) > 1
        /\ DirPart(p) = DirPart(prefix)
        /\ IsPrefix(basename(prefix), basename(p))
        /\ (basename(prefix) = <<>> => basename(p)[1] # ".")}

\* shutil.rmtree: the directory and everything below it
Below(d) == {p \in dirs \cup files : p = d \/ IsPrefix(d \o <<"/">>, p)}

\* the output template '<tmp_dir>/<uuid>.%(ext)s' ("%" stands for %(ext)s)
TmpTemplate(i) == join(tmp_dir, Uuid(i) \o <<".", "%">>)

\* the file youtube-dl writes for a template: %(ext)s becomes the extension
YdlOutput(template) == [k \in 1..Len(template) |-> IF template[k] = "%" THEN "m" ELSE template[k]]

\* ---------------------------------------------------------------- __init__
Init ==
    /\ num_jobs \in 1..MaxJobs
    /\ max_num_attempts \in 1..MaxAttempts
    /\ tmp_dir \in TmpDirs
    /\ \E n \in 0..MaxTasks : tasks = SubSeq(AllTasks, 1, n)
    /\ \E d \in SUBSET {tmp_dir} : dirs = d \cup {VideosDir}
    /\ \E f \in SUBSET {Sibling} : files = f
    /\ mainPc = "start"
    /\ wpc = [t \in Tasks |-> "pending"]
    /\ tmp_filename = [t \in Tasks |-> <<>>]
    /\ attempts = [t \in Tasks |-> 0]
    /\ status = [t \in Tasks |-> FALSE]
    /\ ret = [t \in Tasks |-> <<>>]
    /\ status_lst = <<>>
    /\ log = <<>>
    /\ fetchCalls = [t \in Tasks |-> 0]
    /\ transcodeCalls = [t \in Tasks |-> 0]
    /\ srcPc = "idle"
    /\ src_index = 0
    /\ num_records = 0
    /\ record = NoRecord
    /\ out_videos = <<>>
    /\ num_duplicated_videos = 0
    /\ out_tasks = <<>>
    /\ other = "none"
    /\ runs = 0
    /\ plan = <<>>
    /\ seq_out = <<>>

\* ---------------------------------------------------------------- __call__
\* if len(tasks) == 0: return []
EarlyReturn ==
    /\ mainPc = "start"
    /\ Len(tasks) = 0
    /\ status_lst' = <<>>
    /\ mainPc' = "returned"
    /\ UNCHANGED <<num_jobs, max_num_attempts, tmp_dir, tasks, dirs, files, wpc, tmp_filename,
                   attempts, status, ret, log, fetchCalls, transcodeCalls>>
    /\ UNCHANGED <<srcVars, envVars>>

\* if not exists(self.tmp_dir): makedirs(self.tmp_dir)
Setup ==
    /\ mainPc = "start"
    /\ Len(tasks) # 0
    /\ dirs' = IF exists(tmp_dir) THEN dirs ELSE dirs \cup {tmp_dir}
    /\ mainPc' = "run"
    /\ UNCHANGED <<num_jobs, max_num_attempts, tmp_dir, tasks, files, wpc, tmp_filename,
                   attempts, status, ret, status_lst, log, fetchCalls, transcodeCalls>>
    /\ UNCHANGED <<srcVars, envVars>>

\* variant: a free worker takes any waiting task, not the next one
CanStartAnyOrder(t) ==
    /\ wpc[t] = "pending"
    /\ Cardinality(Running) < num_jobs

\* variant: every task is started at once, whatever num_jobs is
CanStartUnbounded(t) ==
    /\ wpc[t] = "pending"
    /\ \A u \in Tasks : u < t => wpc[u] # "pending"

\* The for loop (num_jobs == 1) starts task t when every earlier call has
\* returned; Parallel(n_jobs=num_jobs) hands tasks out in order to at most
\* num_jobs workers.
CanStart(t) ==
    /\ wpc[t] = "pending"
    /\ \A u \in Tasks : u < t => wpc[u] # "pending"
    /\ Cardinality(Running) < num_jobs

\* entry of _download_video: status = False, the output template, attempts = 0
Start(t) ==
    /\ mainPc = "run"
    /\ CanStart(t)
    /\ wpc' = [wpc EXCEPT ![t] = "fetch"]
    /\ status' = [status EXCEPT ![t] = FALSE]
    /\ tmp_filename' = [tmp_filename EXCEPT ![t] = TmpTemplate(t)]
    /\ attempts' = [attempts EXCEPT ![t] = 0]
    /\ UNCHANGED <<num_jobs, max_num_attempts, tmp_dir, tasks, dirs, files, mainPc, ret,
                   status_lst, log, fetchCalls, transcodeCalls>>
    /\ UNCHANGED <<srcVars, envVars>>

\* variant: the sequential loop keeps only the results of successful calls
ReturnsDroppingFailures(t, r) ==
    /\ ret' = [ret EXCEPT ![t] = <<r>>]
    /\ wpc' = [wpc EXCEPT ![t] = "returned"]
    /\ status_lst' = IF num_jobs = 1 /\ r[2] THEN Append(status_lst, r) ELSE status_lst

\* a call of _download_video returns r: the sequential loop appends it at once,
\* Parallel keeps it until every call has returned
Returns(t, r) ==
    /\ ret' = [ret EXCEPT ![t] = <<r>>]
    /\ wpc' = [wpc EXCEPT ![t] = "returned"]
    /\ status_lst' = IF num_jobs = 1 THEN Append(status_lst, r) ELSE status_lst

\* an exception leaves _download_video and, through the loop or Parallel, __call__
Raises(t) ==
    /\ wpc' = [wpc EXCEPT ![t] = "raised"]
    /\ mainPc' = "raised"

\* variant: the attempts are compared after one more failure
GivesUpLate(n) == n = max_num_attempts + 1

\* the retry loop gives up when attempts reaches max_num_attempts
GivesUp(n) == n = max_num_attempts

\* the message of a fetch that gave up: url, status, err.output
FetchFailure(t) == <<tasks[t][1], status[t], "FetchErr">>

\* variant: the exhausted loop is left with break instead of return
FetchFallsThrough(t) ==
    /\ wpc' = [wpc EXCEPT ![t] = "glob"]
    /\ UNCHANGED <<ret, status_lst>>

\* if attempts == self.max_num_attempts: return url, status, err.output
FetchGivesUp(t) == Returns(t, FetchFailure(t))

\* one pass of the while loop: youtube-dl fails (CalledProcessError), or exits
\* with 0 having written its output file (it creates the file's directory
\* when that is missing), or exits with 0 without a file
Fetch(t) ==
    /\ mainPc = "run"
    /\ wpc[t] = "fetch"
    /\ fetchCalls' = [fetchCalls EXCEPT ![t] = @ + 1]
    /\ \/ /\ attempts' = [attempts EXCEPT ![t] = @ + 1]
          /\ IF GivesUp(attempts[t] + 1)
             THEN FetchGivesUp(t)
             ELSE UNCHANGED <<ret, wpc, status_lst>>
          /\ UNCHANGED files
          /\ UNCHANGED dirs
       \/ /\ \E written \in BOOLEAN :
                /\ files' = IF written THEN files \cup {YdlOutput(tmp_filename[t])} ELSE files
                /\ dirs' = IF written THEN dirs \cup {tmp_dir} ELSE dirs
          /\ wpc' = [wpc EXCEPT ![t] = "glob"]
          /\ UNCHANGED <<attempts, ret, status_lst>>
    /\ UNCHANGED <<num_jobs, max_num_attempts, tmp_dir, tasks, mainPc, tmp_filename,
                   status, log, transcodeCalls>>
    /\ UNCHANGED <<srcVars, envVars>>

\* the prefix the fetched file is looked up by: tmp_filename.split('.')[0]
ScratchPrefix(name) == SplitFirst(name, <<".">>)

\* tmp_filename = glob.glob('%s*' % prefix)[0]: IndexError when nothing
\* matches; the order of glob's list is the directory's, so any match may be first
Glob(t) ==
    /\ mainPc = "run"
    /\ wpc[t] = "glob"
    /\ LET found == glob(ScratchPrefix(tmp_filename[t])) IN
         IF found = {}
         THEN /\ Raises(t)
              /\ UNCHANGED tmp_filename
         ELSE /\ \E f \in found : tmp_filename' = [tmp_filename EXCEPT ![t] = f]
              /\ wpc' = [wpc EXCEPT ![t] = "transcode"]
              /\ UNCHANGED mainPc
    /\ UNCHANGED <<num_jobs, max_num_attempts, tmp_dir, tasks, dirs, files, attempts, status,
                   ret, status_lst, log, fetchCalls, transcodeCalls>>
    /\ UNCHANGED <<srcVars, envVars>>

\* the message of a failed transcode: url, status, err.output
TranscodeFailure(t) == <<tasks[t][1], status[t], "TranscodeErr">>

\* variant: a failed ffmpeg call is tried a second time
TranscodeRetried(t) ==
    IF transcodeCalls[t] = 0
    THEN UNCHANGED <<ret, wpc, status_lst>>
    ELSE Returns(t, TranscodeFailure(t))

\* except subprocess.CalledProcessError as err: return url, status, err.output
TranscodeFails(t) == Returns(t, TranscodeFailure(t))

\* ffmpeg: fails (always when its input is not a regular file; having read
\* its input it may leave the output file it had opened), or exits with 0 with
\* or without the output file written
Transcode(t) ==
    /\ mainPc = "run"
    /\ wpc[t] = "transcode"
    /\ transcodeCalls' = [transcodeCalls EXCEPT ![t] = @ + 1]
    /\ \/ /\ TranscodeFails(t)
          /\ \E partial \in BOOLEAN :
                /\ partial => tmp_filename[t] \in files
                /\ files' = IF partial THEN files \cup {tasks[t][2]} ELSE files
       \/ /\ tmp_filename[t] \in files
          /\ \E written \in BOOLEAN :
                files' = IF written THEN files \cup {tasks[t][2]} ELSE files
          /\ wpc' = [wpc EXCEPT ![t] = "finish"]
          /\ UNCHANGED <<ret, status_lst>>
    /\ UNCHANGED <<num_jobs, max_num_attempts, tmp_dir, tasks, dirs, mainPc, tmp_filename,
                   attempts, status, log, fetchCalls>>
    /\ UNCHANGED <<srcVars, envVars>>

\* message_tuple = url, status, 'Downloaded'
Message(t, st) == <<tasks[t][1], st, "Downloaded">>

\* status = exists(output_filename); remove(tmp_filename) (OSError unless it is
\* an existing regular file); self._log(message_tuple); return message_tuple
Finish(t) ==
    /\ mainPc = "run"
    /\ wpc[t] = "finish"
    /\ status' = [status EXCEPT ![t] = exists(tasks[t][2])]
    /\ IF tmp_filename[t] \in files
       THEN /\ files' = files \ {tmp_filename[t]}
            /\ log' = Append(log, Message(t, status'[t]))
            /\ Returns(t, Message(t, status'[t]))
            /\ UNCHANGED mainPc
       ELSE /\ Raises(t)
            /\ UNCHANGED <<files, log, ret, status_lst>>
    /\ UNCHANGED <<num_jobs, max_num_attempts, tmp_dir, tasks, dirs, tmp_filename, attempts,
                   fetchCalls, transcodeCalls>>
    /\ UNCHANGED <<srcVars, envVars>>

\* variant: rmtree inside the body of the sequential loop
JoinedInLoop ==
    IF num_jobs = 1 THEN \E t \in Tasks : wpc[t] = "returned"
    ELSE \A t \in Tasks : wpc[t] = "returned"

\* the loop is over, or Parallel(...) has every result
Joined == \A t \in Tasks : wpc[t] = "returned"

\* status_lst = Parallel(...)(...) (results in task order); rmtree(self.tmp_dir);
\* return status_lst
Teardown ==
    /\ mainPc = "run"
    /\ Joined
    /\ status_lst' = IF num_jobs = 1 THEN status_lst ELSE [t \in Tasks |-> ret[t][1]]
    /\ IF tmp_dir \in dirs
       THEN /\ dirs' = dirs \ Below(tmp_dir)
            /\ files' = files \ Below(tmp_dir)
            /\ mainPc' = "returned"
       ELSE /\ mainPc' = "raised"
            /\ UNCHANGED <<dirs, files>>
    /\ UNCHANGED <<num_jobs, max_num_attempts, tmp_dir, tasks, wpc, tmp_filename, attempts,
                   status, ret, log, fetchCalls, transcodeCalls>>
    /\ UNCHANGED <<srcVars, envVars>>

\* ---------------------------------------------------------------- task source
\* Python's int() of a number given in half seconds: truncation towards zero
int(x) == IF x >= 0 THEN x \div 2 ELSE -((-x) \div 2)

\* video_name = url.split('?v=')[-1]
VideoName(url) == SplitLast(url, <<"?", "v", "=">>)

\* the entry collect_videos stores for a record: url, segment_start, segment_end
Entry(rec) == <<rec.url, int(rec.segment[1]), int(rec.segment[2])>>

\* os.listdir
listdir(d) == {basename(p) : p \in {q \in dirs \cup files : DirPart(q) = d \o <<"/">>}}

\* os.path.isfile
isfile(p) == p \in files

InitSource ==
    /\ num_jobs = 1
    /\ max_num_attempts = 1
    /\ tmp_dir \in {<<"/", "t">>}
    /\ tasks = <<>>
    /\ dirs = {VideosDir}
    /\ \E f \in SUBSET {OutPath(1), OutPath(2)} : files = f
    /\ mainPc = "idle"
    /\ wpc = <<>>
    /\ tmp_filename = <<>>
    /\ attempts = <<>>
    /\ status = <<>>
    /\ ret = <<>>
    /\ status_lst = <<>>
    /\ log = <<>>
    /\ fetchCalls = <<>>
    /\ transcodeCalls = <<>>
    /\ srcPc = "collect"
    /\ src_index = 0
    /\ num_records = 0
    /\ record = NoRecord
    /\ out_videos = <<>>
    /\ num_duplicated_videos = 0
    /\ out_tasks = <<>>
    /\ other = "none"
    /\ runs = 0
    /\ plan = <<>>
    /\ seq_out = <<>>

\* for data_source in data_sources: open the next file and json.load it
OpenSource ==
    /\ srcPc = "collect"
    /\ src_index < MaxSources
    /\ src_index' = src_index + 1
    /\ UNCHANGED <<srcPc, num_records, record, out_videos, num_duplicated_videos, out_tasks>>
    /\ UNCHANGED <<dlVars, envVars>>

\* variant: a later record of the same video replaces the stored one
ReplacedOnDuplicate(videos, video_name, entry) == [videos EXCEPT ![video_name] = entry]

\* if video_name in out_videos: only the counter and a warning, no store
KeptOnDuplicate(videos, video_name, entry) == videos

\* out_videos[video_name] = url, segment_start, segment_end
Stored(videos, video_name, entry) ==
    [n \in DOMAIN videos \cup {video_name} |-> IF n = video_name THEN entry ELSE videos[n]]

\* one pass of "for record in data.values()"
Collect(rec) ==
    /\ srcPc = "collect"
    /\ src_index > 0
    /\ num_records < MaxRecords
    /\ num_records' = num_records + 1
    /\ record' = rec
    /\ LET video_name == VideoName(rec.url) IN
         IF video_name \in DOMAIN out_videos
         THEN /\ num_duplicated_videos' = num_duplicated_videos + 1
              /\ out_videos' = KeptOnDuplicate(out_videos, video_name, Entry(rec))
         ELSE /\ out_videos' = Stored(out_videos, video_name, Entry(rec))
              /\ UNCHANGED num_duplicated_videos
    /\ UNCHANGED <<srcPc, src_index, out_tasks>>
    /\ UNCHANGED <<dlVars, envVars>>

\* return out_videos (the loop variable ends with the call)
EndCollect ==
    /\ srcPc = "collect"
    /\ src_index > 0
    /\ srcPc' = "prepare"
    /\ record' = NoRecord
    /\ UNCHANGED <<src_index, num_records, out_videos, num_duplicated_videos, out_tasks>>
    /\ UNCHANGED <<dlVars, envVars>>

\* downloaded_videos of prepare_tasks
DownloadedVideos(videos_dir, extension) ==
    {join(videos_dir, f) : f \in {g \in listdir(videos_dir) :
                                     isfile(join(videos_dir, g)) /\ EndsWith(g, extension)}}

\* all_videos of prepare_tasks
AllVideos(video_sources, videos_dir, extension) ==
    {join(videos_dir, video_name \o <<".">> \o extension) : video_name \in DOMAIN video_sources}

\* candidate_videos of prepare_tasks, as a set
CandidateVideos(video_sources, videos_dir, extension) ==
    AllVideos(video_sources, videos_dir, extension) \ DownloadedVideos(videos_dir, extension)

\* video_name = basename(video_path).replace('.{}'.format(extension), '')
NameOfPath(video_path, extension) == Remove(basename(video_path), <<".">> \o extension)

\* the task prepare_tasks appends for a path
TaskOf(video_sources, video_path, extension) ==
    LET e == video_sources[NameOfPath(video_path, extension)]
    IN <<e[1], video_path, e[2], e[3]>>

\* prepare_tasks: the list made from the set difference comes in any order;
\* video_sources[video_name] raises KeyError for a name that is not a key
PrepareTasks ==
    /\ srcPc = "prepare"
    /\ LET cand == CandidateVideos(out_videos, VideosDir, Extension) IN
         IF \A c \in cand : NameOfPath(c, Extension) \in DOMAIN out_videos
         THEN /\ \E order \in {o \in [1..Cardinality(cand) -> cand] :
                                  \A i, j \in DOMAIN o : o[i] = o[j] => i = j} :
                    out_tasks' = [i \in DOMAIN order |-> TaskOf(out_videos, order[i], Extension)]
              /\ srcPc' = "done"
         ELSE /\ srcPc' = "raised"
              /\ UNCHANGED out_tasks
    /\ UNCHANGED <<src_index, num_records, record, out_videos, num_duplicated_videos>>
    /\ UNCHANGED <<dlVars, envVars>>

vars == <<dlVars, srcVars, envVars>>

\* ---------------------------------------------------------------- properties
\* the result of task t, once its call has returned
Result(t) == ret[t][1]
HasResult(t) == ret[t] # <<>>
RunOver == mainPc \in {"returned", "raised"}

\* C1: when __call__ returns for a non-empty task list, status_lst has as many
\* entries as there are tasks and holds exactly one entry for each task,
\* whatever the outcomes of the fetches and transcodes were.
OneResultPerTask ==
    (mainPc = "returned" /\ Len(tasks) > 0) =>
        /\ Len(status_lst) = Len(tasks)
        /\ \A t \in Tasks :
              Cardinality({i \in DOMAIN status_lst : status_lst[i][1] = tasks[t][1]}) = 1

\* a parallel run of three tasks has returned a fetch failure, a transcode
\* failure and a download
OneResultPerTaskWitness ==
    /\ mainPc = "returned"
    /\ num_jobs > 1
    /\ Len(status_lst) = 3
    /\ {status_lst[i][3] : i \in DOMAIN status_lst} = {"FetchErr", "TranscodeErr", "Downloaded"}

\* C2: once the run over a non-empty task list is over and no call is left
\* executing, the temporary directory no longer exists, on every way out of
\* the run.
WorkspaceRemovedWhenOver ==
    (RunOver /\ Len(tasks) > 0 /\ Running = {}) => ~exists(tmp_dir)

\* C3: no failure of a task leaves _download_video as an exception: every
\* call returns a result and __call__ is never left by an exception.
NoFailurePropagates ==
    /\ mainPc # "raised"
    /\ \A t \in Tasks : wpc[t] # "raised"

\* C4: a task whose fetches all fail makes exactly max_num_attempts fetch
\* attempts and no transcode attempt and returns the failed message carrying
\* the fetch tool's error output; a task whose fetch succeeds at attempt k
\* has made exactly k <= max_num_attempts fetch attempts.
FetchAttemptsExact ==
    \A t \in Tasks :
        /\ fetchCalls[t] \in {attempts[t], attempts[t] + 1}
        /\ fetchCalls[t] <= max_num_attempts
        /\ (fetchCalls[t] = attempts[t] /\ fetchCalls[t] < max_num_attempts) =>
              wpc[t] \in {"pending", "fetch"}
        /\ (fetchCalls[t] = attempts[t] /\ fetchCalls[t] = max_num_attempts) =>
              /\ wpc[t] = "returned"
              /\ Result(t) = <<tasks[t][1], FALSE, "FetchErr">>
              /\ transcodeCalls[t] = 0
        /\ (wpc[t] \in {"glob", "transcode", "finish"} \/ transcodeCalls[t] > 0) =>
              fetchCalls[t] = attempts[t] + 1

\* with two attempts allowed, one task failed both fetches and another
\* succeeded at its second
FetchAttemptsWitness ==
    /\ max_num_attempts = 2
    /\ \E t, u \in Tasks :
          /\ HasResult(t) /\ Result(t)[3] = "FetchErr" /\ fetchCalls[t] = 2
          /\ wpc[u] = "glob" /\ fetchCalls[u] = 2 /\ attempts[u] = 1

\* C5: a task whose fetch succeeded and whose transcode failed has made
\* exactly one transcode attempt, returns the failed message carrying the
\* transcode tool's error output, and makes no fetch attempt after it.
SingleTranscodeInv ==
    \A t \in Tasks :
        /\ transcodeCalls[t] <= 1
        /\ (HasResult(t) /\ transcodeCalls[t] > 0 /\ Result(t)[3] # "Downloaded") =>
              /\ Result(t) = <<tasks[t][1], FALSE, "TranscodeErr">>
              /\ transcodeCalls[t] = 1
              /\ fetchCalls[t] = attempts[t] + 1
        /\ wpc[t] = "transcode" => transcodeCalls[t] = 0

NoFetchAfterTranscode ==
    \A t \in Tasks : transcodeCalls[t] > 0 => fetchCalls'[t] = fetchCalls[t]

SingleTranscode == []SingleTranscodeInv /\ [][NoFetchAfterTranscode]_vars

\* a task has returned a transcode failure after a fetch that needed a retry
SingleTranscodeWitness ==
    \E t \in Tasks :
        /\ HasResult(t)
        /\ Result(t)[3] = "TranscodeErr"
        /\ transcodeCalls[t] = 1
        /\ fetchCalls[t] = 2

\* C6: with num_jobs > 1, at most num_jobs tasks are between the start of
\* their fetch and their return at any time, also for longer task lists.
BoundedRunning == num_jobs > 1 => Cardinality(Running) <= num_jobs

\* two workers are busy while a third task waits
BoundedRunningWitness ==
    /\ num_jobs = 2
    /\ Len(tasks) > num_jobs
    /\ Cardinality(Running) = num_jobs
    /\ \E t \in Tasks : wpc[t] = "pending"

\* C7: a step that removes the temporary directory is taken only when every
\* call of _download_video has returned.
RemovalStep == exists(tmp_dir) /\ ~exists(tmp_dir)' => \A t \in Tasks : wpc[t] = "returned"

RemovalAfterJoin == [][RemovalStep]_vars

\* the directory is gone after a run of several tasks
RemovalAfterJoinWitness ==
    /\ mainPc = "returned"
    /\ Len(tasks) >= 2
    /\ ~exists(tmp_dir)
    /\ \A t \in Tasks : wpc[t] = "returned"

\* the scratch file the fetch of task t writes
OwnScratch(t) == YdlOutput(TmpTemplate(t))

\* C11: once a call has returned the succeeded "Downloaded" message, no file
\* whose name starts with that call's scratch identifier is left in the
\* temporary directory.
NoScratchLeftBehind ==
    \A t \in Tasks :
        (HasResult(t) /\ Result(t) = <<tasks[t][1], TRUE, "Downloaded">>) =>
            \A f \in files : ~IsPrefix(join(tmp_dir, Uuid(t)), f)

\* C15: with num_jobs = 1 at most one call is in progress, a task is started
\* only when every earlier task has returned, and the i-th entry of
\* status_lst is the result of the i-th task.
SequentialInOrder ==
    num_jobs = 1 =>
        /\ Cardinality(Running) <= 1
        /\ \A t \in Tasks : wpc[t] # "pending" => \A u \in Tasks : u < t => wpc[u] = "returned"
        /\ Len(status_lst) = Cardinality({t \in Tasks : wpc[t] = "returned"})
        /\ \A i \in DOMAIN status_lst : status_lst[i] = Result(i) /\ status_lst[i][1] = tasks[i][1]

\* a sequential run of three tasks has returned
SequentialInOrderWitness ==
    /\ num_jobs = 1
    /\ mainPc = "returned"
    /\ Len(tasks) = 3
    /\ Len(status_lst) = 3
    /\ status_lst[3][1] = tasks[3][1]

\* the moves of a call: PENDING is pending, FETCHING fetch, FETCHED glob,
\* TRANSCODING transcode and finish; returned holds the three terminal states,
\* raised is a call an exception has left
PhaseMoves ==
    {<<"pending", "fetch">>, <<"fetch", "glob">>, <<"fetch", "returned">>,
     <<"glob", "transcode">>, <<"glob", "raised">>, <<"transcode", "finish">>,
     <<"transcode", "returned">>, <<"finish", "returned">>, <<"finish", "raised">>}

PhaseStep ==
    \A t \in Tasks :
        /\ wpc'[t] # wpc[t] => <<wpc[t], wpc'[t]>> \in PhaseMoves
        /\ (wpc[t] = "fetch" /\ wpc'[t] = "glob") => attempts'[t] = attempts[t]
        /\ (wpc[t] = "fetch" /\ wpc'[t] = "returned") => Result(t)' = <<tasks[t][1], FALSE, "FetchErr">>
        /\ transcodeCalls'[t] # transcodeCalls[t] =>
              wpc[t] = "transcode" /\ fetchCalls[t] = attempts[t] + 1
        /\ wpc[t] \in {"returned", "raised"} =>
              /\ wpc'[t] = wpc[t]
              /\ fetchCalls'[t] = fetchCalls[t]
              /\ transcodeCalls'[t] = transcodeCalls[t]
              /\ ret'[t] = ret[t]

\* C16: a call moves only forward along pending, fetch, glob, transcode,
\* finish; ffmpeg is started only after a fetch that succeeded; after a call
\* has returned (or was left by an exception) it makes no fetch or transcode
\* attempt and its result does not change.
PhaseOrder == [][PhaseStep]_vars

\* a sequential run has seen a fetch failure, a transcode failure and a download
PhaseOrderWitness ==
    /\ num_jobs = 1
    /\ Len(tasks) = 3
    /\ \A t \in Tasks : HasResult(t)
    /\ {Result(t)[3] : t \in Tasks} = {"FetchErr", "TranscodeErr", "Downloaded"}

\* C17: the file a call hands to ffmpeg is the file its own fetch wrote,
\* whatever the temporary directory's path is.
TranscodesOwnFile ==
    \A t \in Tasks : wpc[t] \in {"transcode", "finish"} => tmp_filename[t] = OwnScratch(t)

\* the output file of a video name: {output_dir}/{identifier}.{extension}
OutputOf(video_name) == join(VideosDir, video_name \o <<".">> \o Extension)

\* C12: prepare_tasks returns one task for every collected video whose output
\* file is not on disk, carrying that video's url and segment, and no task
\* for a video whose output file is there.
PreparedExactlyMissing ==
    srcPc \in {"done", "raised"} =>
        /\ srcPc = "done"
        /\ Len(out_tasks) = Cardinality({n \in DOMAIN out_videos : OutputOf(n) \notin files})
        /\ \A n \in DOMAIN out_videos :
              LET own == {i \in DOMAIN out_tasks : out_tasks[i][2] = OutputOf(n)} IN
                IF OutputOf(n) \in files
                THEN own = {}
                ELSE /\ Cardinality(own) = 1
                     /\ \A i \in own : out_tasks[i] = <<out_videos[n][1], OutputOf(n),
                                                        out_videos[n][2], out_videos[n][3]>>

\* the counter of duplicates is the number of records read minus the number
\* of stored videos
DuplicatesCounted == num_duplicated_videos = num_records - Cardinality(DOMAIN out_videos)

\* a pass of the loop stores the record under its video name when the name
\* is new and leaves out_videos alone otherwise; a stored entry never changes
CollectStep ==
    /\ \A n \in DOMAIN out_videos : n \in DOMAIN out_videos' /\ out_videos'[n] = out_videos[n]
    /\ num_records' # num_records =>
          LET name == VideoName(record'.url) IN
            IF name \in DOMAIN out_videos
            THEN out_videos' = out_videos
            ELSE /\ DOMAIN out_videos' = DOMAIN out_videos \cup {name}
                 /\ out_videos'[name] = <<record'.url, record'.segment[1] \div 2,
                                          record'.segment[2] \div 2>>
    /\ num_records' = num_records => out_videos' = out_videos

\* C13: out_videos holds one entry for each distinct video name read, the
\* entry is the one of the first record with that name and is never
\* overwritten, and num_duplicated_videos is the number of records read
\* minus the number of distinct names.
FirstOccurrenceKept == []DuplicatesCounted /\ [][CollectStep]_vars

\* two records from two data sources were read, the second a duplicate whose
\* url differs from the stored one
FirstOccurrenceKeptWitness ==
    /\ srcPc = "collect"
    /\ src_index = 2
    /\ num_records = 2
    /\ num_duplicated_videos >= 1
    /\ VideoName(record.url) \in DOMAIN out_videos
    /\ out_videos[VideoName(record.url)][1] # record.url

\* C18: when every youtube-dl and ffmpeg call returns and every started call
\* keeps running, every task ends in a result and __call__ returns its list.
RunReturns == <>(mainPc = "returned" /\ \A t \in Tasks : wpc[t] = "returned")

\* what the retry bound does give: the run is over after finitely many steps
RunEnds == <>RunOver

\* while a call is between the start of its fetch and the end of its
\* transcode, the temporary directory exists
WorkspaceKept == \A t \in Tasks : wpc[t] \in {"fetch", "glob", "transcode"} => exists(tmp_dir)

\* the scratch file of a call in progress disappears only in that call's own
\* final step, and a step that removes the temporary directory removes no
\* file other than the run's own scratch files
WorkspaceStep ==
    /\ \A t \in Tasks :
          (wpc[t] \in {"fetch", "glob", "transcode", "finish"}
              /\ OwnScratch(t) \in files /\ OwnScratch(t) \notin files') =>
                 (wpc[t] = "finish" /\ wpc'[t] = "returned")
    /\ (mainPc = "run" /\ mainPc' = "returned") => files \ files' \subseteq {OwnScratch(t) : t \in Tasks}

\* C19: only the run itself touches its workspace: the directory is there
\* while a call fetches or transcodes, a call's scratch file is removed by
\* that call alone, also with a second run on the same tmp_dir, and the
\* run's teardown removes only files of the run.
WorkspaceOwned == []WorkspaceKept /\ [][WorkspaceStep]_vars

\* C20: the task list prepared by the next run holds every task of the last
\* run whose result was a failure and no task whose result was a success.
FailedTasksPreparedAgain ==
    (runs = 2 /\ srcPc \in {"done", "raised"}) =>
        /\ srcPc = "done"
        /\ \A t \in Tasks :
              HasResult(t) =>
                 (Result(t)[2] = FALSE <=> \E i \in DOMAIN out_tasks : out_tasks[i] = tasks[t])

\* how often r occurs in the list l
Count(l, r) == Cardinality({i \in DOMAIN l : l[i] = r})

\* C14: under one plan of the tools' behaviour, the run with num_jobs > 1
\* ends as the run with num_jobs = 1 ended and returns the same results,
\* order aside, whatever the interleaving of its calls was.
ParallelAsSequential ==
    (seq_out # <<>> /\ RunOver) =>
        /\ mainPc = seq_out[1]
        /\ mainPc = "returned" =>
              \A i \in DOMAIN status_lst \cup DOMAIN seq_out[2] :
                 /\ i \in DOMAIN status_lst => Count(status_lst, status_lst[i]) = Count(seq_out[2], status_lst[i])
                 /\ i \in DOMAIN seq_out[2] => Count(status_lst, seq_out[2][i]) = Count(seq_out[2], seq_out[2][i])

\* C8: every task prepare_tasks returns has segment_end > segment_start >= 0.
SegmentInvariant ==
    \A i \in DOMAIN out_tasks : out_tasks[i][4] > out_tasks[i][3] /\ out_tasks[i][3] >= 0

\* C9: every result a call has returned was printed by _log exactly once.
EveryResultLogged ==
    \A t \in Tasks :
        HasResult(t) => Cardinality({i \in DOMAIN log : log[i] = Result(t)}) = 1

\* C10: a task whose transcode succeeded returns succeeded = TRUE with the
\* detail "Downloaded": no result pairs "Downloaded" with succeeded = FALSE.
DownloadedMeansSucceeded ==
    \A t \in Tasks : (HasResult(t) /\ Result(t)[3] = "Downloaded") => Result(t)[2] = TRUE



Next ==
    \/ EarlyReturn
    \/ Setup
    \/ \E t \in Tasks : Start(t)
    \/ \E t \in Tasks : Fetch(t)
    \/ \E t \in Tasks : Glob(t)
    \/ \E t \in Tasks : Transcode(t)
    \/ \E t \in Tasks : Finish(t)
    \/ Teardown

Spec == Init /\ [][Next]_vars

\* every external call returns and no runnable step of the run is put off forever
SpecFair == Init /\ [][Next]_vars /\ WF_vars(Next)

NextSource ==
    \/ OpenSource
    \/ \E rec \in Records : Collect(rec)
    \/ EndCollect
    \/ PrepareTasks

SpecSource == InitSource /\ [][NextSource]_vars

\* ---------------------------------------------------------------- a second run
\* the scratch file of a call of another run that uses the same tmp_dir
OtherScratch == join(tmp_dir, <<"v", "1", ".", "m">>)

\* the same Init, with a second VideoDownloader on the same tmp_dir about to run
InitShared ==
    /\ num_jobs \in 1..MaxJobs
    /\ max_num_attempts \in 1..MaxAttempts
    /\ tmp_dir \in TmpDirs
    /\ \E n \in 1..2 : tasks = SubSeq(AllTasks, 1, n)
    /\ \E d \in SUBSET {tmp_dir} : dirs = d \cup {VideosDir}
    /\ files = {}
    /\ mainPc = "start"
    /\ wpc = [t \in Tasks |-> "pending"]
    /\ tmp_filename = [t \in Tasks |-> <<>>]
    /\ attempts = [t \in Tasks |-> 0]
    /\ status = [t \in Tasks |-> FALSE]
    /\ ret = [t \in Tasks |-> <<>>]
    /\ status_lst = <<>>
    /\ log = <<>>
    /\ fetchCalls = [t \in Tasks |-> 0]
    /\ transcodeCalls = [t \in Tasks |-> 0]
    /\ srcPc = "idle"
    /\ src_index = 0
    /\ num_records = 0
    /\ record = NoRecord
    /\ out_videos = <<>>
    /\ num_duplicated_videos = 0
    /\ out_tasks = <<>>
    /\ other = "idle"
    /\ runs = 0
    /\ plan = <<>>
    /\ seq_out = <<>>

\* the other run's "if not exists(self.tmp_dir): makedirs(self.tmp_dir)"
OtherSetup ==
    /\ other = "idle"
    /\ other' = "run"
    /\ dirs' = IF exists(tmp_dir) THEN dirs ELSE dirs \cup {tmp_dir}
    /\ UNCHANGED <<num_jobs, max_num_attempts, tmp_dir, tasks, files, mainPc, wpc, tmp_filename,
                   attempts, status, ret, status_lst, log, fetchCalls, transcodeCalls>>
    /\ UNCHANGED <<srcVars, runs, plan, seq_out>>

\* a youtube-dl call of the other run writes its scratch file
OtherFetch ==
    /\ other = "run"
    /\ OtherScratch \notin files
    /\ files' = files \cup {OtherScratch}
    /\ dirs' = dirs \cup {tmp_dir}
    /\ UNCHANGED <<num_jobs, max_num_attempts, tmp_dir, tasks, mainPc, wpc, tmp_filename,
                   attempts, status, ret, status_lst, log, fetchCalls, transcodeCalls>>
    /\ UNCHANGED <<srcVars, envVars>>

\* the other run's rmtree(self.tmp_dir), an error when the directory is gone
OtherTeardown ==
    /\ other = "run"
    /\ other' = "done"
    /\ dirs' = IF tmp_dir \in dirs THEN dirs \ Below(tmp_dir) ELSE dirs
    /\ files' = IF tmp_dir \in dirs THEN files \ Below(tmp_dir) ELSE files
    /\ UNCHANGED <<num_jobs, max_num_attempts, tmp_dir, tasks, mainPc, wpc, tmp_filename,
                   attempts, status, ret, status_lst, log, fetchCalls, transcodeCalls>>
    /\ UNCHANGED <<srcVars, runs, plan, seq_out>>

NextShared ==
    \/ Setup
    \/ \E t \in Tasks : Start(t)
    \/ \E t \in Tasks : Fetch(t)
    \/ \E t \in Tasks : Glob(t)
    \/ \E t \in Tasks : Transcode(t)
    \/ \E t \in Tasks : Finish(t)
    \/ Teardown
    \/ OtherSetup
    \/ OtherFetch
    \/ OtherTeardown

SpecShared == InitShared /\ [][NextShared]_vars

\* ---------------------------------------------------------------- main, run again
\* the videos collect_videos returns for the first n urls, segment 0 to 5
VideosOf(n) == [name \in {VideoName(Url(i)) : i \in 1..n} |->
                  <<CHOOSE u \in {Url(i) : i \in 1..n} : VideoName(u) = name, 0, 5>>]

\* main after collect_videos, in front of prepare_tasks
InitResume ==
    /\ num_jobs \in 1..MaxJobs
    /\ max_num_attempts \in 1..MaxAttempts
    /\ tmp_dir \in TmpDirs
    /\ tasks = <<>>
    /\ dirs = {VideosDir}
    /\ \E f \in SUBSET {Sibling, OutPath(1)} : files = f
    /\ mainPc = "idle"
    /\ wpc = <<>>
    /\ tmp_filename = <<>>
    /\ attempts = <<>>
    /\ status = <<>>
    /\ ret = <<>>
    /\ status_lst = <<>>
    /\ log = <<>>
    /\ fetchCalls = <<>>
    /\ transcodeCalls = <<>>
    /\ srcPc = "prepare"
    /\ src_index = 1
    /\ \E n \in 1..2 : num_records = n /\ out_videos = VideosOf(n)
    /\ record = NoRecord
    /\ num_duplicated_videos = 0
    /\ out_tasks = <<>>
    /\ other = "none"
    /\ runs = 0
    /\ plan = <<>>
    /\ seq_out = <<>>

\* downloader = VideoDownloader(...); status_lst = downloader(tasks)
Launch ==
    /\ srcPc = "done"
    /\ mainPc = "idle"
    /\ runs = 0
    /\ runs' = 1
    /\ tasks' = out_tasks
    /\ mainPc' = "start"
    /\ wpc' = [t \in DOMAIN out_tasks |-> "pending"]
    /\ tmp_filename' = [t \in DOMAIN out_tasks |-> <<>>]
    /\ attempts' = [t \in DOMAIN out_tasks |-> 0]
    /\ status' = [t \in DOMAIN out_tasks |-> FALSE]
    /\ ret' = [t \in DOMAIN out_tasks |-> <<>>]
    /\ fetchCalls' = [t \in DOMAIN out_tasks |-> 0]
    /\ transcodeCalls' = [t \in DOMAIN out_tasks |-> 0]
    /\ UNCHANGED <<num_jobs, max_num_attempts, tmp_dir, dirs, files, status_lst, log>>
    /\ UNCHANGED <<srcVars, other, plan, seq_out>>

\* main is started again on the same data sources and output directory:
\* collect_videos returns the same videos, prepare_tasks comes next
MainAgain ==
    /\ runs = 1
    /\ mainPc \in {"returned", "raised"}
    /\ runs' = 2
    /\ srcPc' = "prepare"
    /\ UNCHANGED <<src_index, num_records, record, out_videos, num_duplicated_videos, out_tasks>>
    /\ UNCHANGED <<dlVars, other, plan, seq_out>>

NextResume ==
    \/ PrepareTasks
    \/ Launch
    \/ EarlyReturn
    \/ Setup
    \/ \E t \in Tasks : Start(t)
    \/ \E t \in Tasks : Fetch(t)
    \/ \E t \in Tasks : Glob(t)
    \/ \E t \in Tasks : Transcode(t)
    \/ \E t \in Tasks : Finish(t)
    \/ Teardown
    \/ MainAgain

SpecResume == InitResume /\ [][NextResume]_vars

\* ---------------------------------------------------------------- one plan, two runs
\* The same task list is run twice from the same filesystem, first with
\* num_jobs = 1 and then with plan.jobs > 1 workers, and in both runs the tools
\* behave as plan says: youtube-dl fails plan.fails[t] times for task t before
\* it succeeds and then has written its file or not (plan.fetched[t]); ffmpeg,
\* given a regular file, succeeds and writes the destination or fails and
\* writes nothing (plan.ffmpeg[t]); a directory lists its entries in one
\* order (plan.first).
Plans(n, maxAttempts) ==
    [fails : [1..n -> 0..maxAttempts], fetched : [1..n -> BOOLEAN],
     ffmpeg : [1..n -> {"ok", "fail"}], first : {"dir", "file"}, jobs : 2..MaxJobs,
     dirs0 : {d \cup {VideosDir} : d \in SUBSET {tmp_dir}}, files0 : SUBSET {Sibling}]

InitBoth ==
    /\ num_jobs = 1
    /\ max_num_attempts \in 1..MaxAttempts
    /\ tmp_dir \in TmpDirs
    /\ \E n \in 1..2 : tasks = SubSeq(AllTasks, 1, n)
    /\ plan \in Plans(Len(tasks), max_num_attempts)
    /\ dirs = plan.dirs0
    /\ files = plan.files0
    /\ mainPc = "start"
    /\ wpc = [t \in Tasks |-> "pending"]
    /\ tmp_filename = [t \in Tasks |-> <<>>]
    /\ attempts = [t \in Tasks |-> 0]
    /\ status = [t \in Tasks |-> FALSE]
    /\ ret = [t \in Tasks |-> <<>>]
    /\ status_lst = <<>>
    /\ log = <<>>
    /\ fetchCalls = [t \in Tasks |-> 0]
    /\ transcodeCalls = [t \in Tasks |-> 0]
    /\ srcPc = "idle"
    /\ src_index = 0
    /\ num_records = 0
    /\ record = NoRecord
    /\ out_videos = <<>>
    /\ num_duplicated_videos = 0
    /\ out_tasks = <<>>
    /\ other = "none"
    /\ runs = 0
    /\ seq_out = <<>>

\* a pass of the fetch loop whose youtube-dl call does what plan says
PlannedFetch(t) ==
    /\ Fetch(t)
    /\ IF fetchCalls[t] < plan.fails[t]
       THEN attempts'[t] = attempts[t] + 1
       ELSE /\ wpc'[t] = "glob"
            /\ (YdlOutput(tmp_filename[t]) \in files') = plan.fetched[t]

\* the first entry of glob's list under the listing order of plan
PlannedGlob(t) ==
    /\ Glob(t)
    /\ LET found == glob(ScratchPrefix(tmp_filename[t])) IN
         Cardinality(found) > 1 =>
            IF plan.first = "file" THEN tmp_filename'[t] \in files ELSE tmp_filename'[t] \in dirs

\* an ffmpeg call that does what plan says when it is given a regular file
PlannedTranscode(t) ==
    /\ Transcode(t)
    /\ tmp_filename[t] \in files =>
          IF plan.ffmpeg[t] = "ok"
          THEN wpc'[t] = "finish" /\ tasks[t][2] \in files'
          ELSE wpc'[t] = "returned" /\ files' = files

\* the sequential run is over: keep how it ended and run the same tasks
\* again from the same filesystem with plan.jobs workers
Rerun ==
    /\ seq_out = <<>>
    /\ mainPc \in {"returned", "raised"}
    /\ seq_out' = <<mainPc, status_lst>>
    /\ num_jobs' = plan.jobs
    /\ dirs' = plan.dirs0
    /\ files' = plan.files0
    /\ mainPc' = "start"
    /\ wpc' = [t \in Tasks |-> "pending"]
    /\ tmp_filename' = [t \in Tasks |-> <<>>]
    /\ attempts' = [t \in Tasks |-> 0]
    /\ status' = [t \in Tasks |-> FALSE]
    /\ ret' = [t \in Tasks |-> <<>>]
    /\ status_lst' = <<>>
    /\ log' = <<>>
    /\ fetchCalls' = [t \in Tasks |-> 0]
    /\ transcodeCalls' = [t \in Tasks |-> 0]
    /\ UNCHANGED <<max_num_attempts, tmp_dir, tasks>>
    /\ UNCHANGED <<srcVars, other, runs, plan>>

NextBoth ==
    \/ Setup
    \/ \E t \in Tasks : Start(t)
    \/ \E t \in Tasks : PlannedFetch(t)
    \/ \E t \in Tasks : PlannedGlob(t)
    \/ \E t \in Tasks : PlannedTranscode(t)
    \/ \E t \in Tasks : Finish(t)
    \/ Teardown
    \/ Rerun

SpecBoth == InitBoth /\ [][NextBoth]_vars

====
